---- MODULE Spec2Model ----
(***************************************************************************)
(* SiteScraperPipeline.run (content_ingestion/scrapers/site_scraper.py):   *)
(* the crawl loop over the start_urls deque, the structural gate, the page *)
(* limit, the per-article dedup / fetch / insert loop with the date        *)
(* cutoff, and the next-page push.                                         *)
(*                                                                         *)
(* The web site, the extraction results and the failures of the network    *)
(* and of the store are the environment: what a fetched page holds is      *)
(* drawn when the code evaluates a pattern on it (each pattern is          *)
(* evaluated once per fetched page).                                       *)
(***************************************************************************)
EXTENDS Integers, Sequences, FiniteSets, TLC

\* ------------------------------------------------------------------ bounds
\* listing pages dequeued, over all invocations of run() on the site and its
\* store (the code has no such cap: next-page links may form a cycle, and
\* run() may be invoked again and again)
MaxVisits == 3

\* -------------------------------------------------------------------- URLs
\* A URL is a host (labels) and a path (segments); Str is its text, token by
\* token, so that str.startswith is a prefix test on texts.
Url(h, p) == [host |-> h, path |-> p]

BaseUrl == Url(<<"site">>, <<>>)
UrlA    == Url(<<"site">>, <<"a">>)
UrlA2   == Url(<<"site">>, <<"a2">>)
UrlB    == Url(<<"site">>, <<"b">>)
UrlBl   == Url(<<"site">>, <<"bl">>)
UrlOff  == Url(<<"other">>, <<"x">>)
Art1    == Url(<<"site">>, <<"n", "1">>)
Art2    == Url(<<"site">>, <<"n", "2">>)
Art3    == Url(<<"site">>, <<"n", "3">>)

Urls == {BaseUrl, UrlA, UrlA2, UrlB, UrlBl, UrlOff, Art1, Art2, Art3}

Str(u) == [i \in 1..Len(u.host) |-> <<"h", u.host[i]>>]
            \o [i \in 1..Len(u.path) |-> <<"p", u.path[i]>>]

StartsWith(s, prefix) ==
    /\ Len(prefix) <= Len(s)
    /\ SubSeq(s, 1, Len(prefix)) = prefix

\* An href as it stands in the page: absolute, root-relative ("/a") or
\* relative to the base's directory ("a").
Abs(u)   == [kind |-> "abs", host |-> u.host, path |-> u.path]
Root(p)  == [kind |-> "root", host |-> <<>>, path |-> p]
Rel(p)   == [kind |-> "rel", host |-> <<>>, path |-> p]
\* the element the href is looked up under is itself missing
NoElement == [kind |-> "absent", host |-> <<>>, path |-> <<>>]
\* no URL: start_url before the first pop
NoUrl    == Url(<<>>, <<>>)

Front(s) == IF s = <<>> THEN <<>> ELSE SubSeq(s, 1, Len(s) - 1)

\* urllib.parse.urljoin(base, url)
urljoin(base, href) ==
    CASE href.kind = "abs"  -> Url(href.host, href.path)
      [] href.kind = "root" -> Url(base.host, href.path)
      [] OTHER              -> Url(base.host, Front(base.path) \o href.path)

\* ----------------------------------------------------------- configuration
site_name == "faz"
blacklisted_urls == {UrlBl}
None == "None"
Pattern == "xpath"
\* run(max_num_pages, until_date): until_date is a date string
max_num_pages == 2
until_date == <<2, 0>>

\* str < str in Python: lexicographic, a proper prefix is smaller
RECURSIVE StrLess(_, _)
StrLess(a, b) ==
    IF b = <<>> THEN FALSE
    ELSE IF a = <<>> THEN TRUE
    ELSE IF Head(a) # Head(b) THEN Head(a) < Head(b)
    ELSE StrLess(Tail(a), Tail(b))

\* ------------------------------------------------------------- environment
\* what topics_urls_pattern can match on the base page
TopicLinks ==
    { <<>>,
      <<Root(<<"a">>), Rel(<<"b">>)>>,
      <<Rel(<<"a">>), Root(<<"a">>)>>,
      <<Abs(UrlOff), Root(<<"bl">>), Abs(UrlB)>>,
      <<Abs(UrlOff), Root(<<"bl">>)>> }

\* what articles_pattern can match on a listing page
ArticleLinks ==
    { <<>>,
      <<Root(<<"n", "1">>), Root(<<"n", "2">>)>>,
      <<Root(<<"n", "1">>), Abs(Art2), Root(<<"n", "3">>)>>,
      <<Root(<<"n", "2">>), Root(<<"n", "2">>)>> }

\* the active-page element: missing, or its text, which int() parses or not
NoActivePage == [found |-> FALSE, numeric |-> FALSE, number |-> 0]
NotANumber   == [found |-> TRUE, numeric |-> FALSE, number |-> 0]
PageNumber(n) == [found |-> TRUE, numeric |-> TRUE, number |-> n]
ActivePages == {NoActivePage, NotANumber,
                PageNumber(max_num_pages), PageNumber(max_num_pages + 1)}

\* the next-page element: missing, or the href of its anchor (an element
\* without an anchor is left out)
NextLinks == {NoElement, Root(<<"a2">>)}

\* what parse_website can return for an article page
Parsed ==
    { [title |-> "t"],
      [title |-> "t", parsed_date |-> <<1, 9>>],
      [title |-> "t", parsed_date |-> <<2, 0>>],
      [title |-> "t", parsed_date |-> <<2, 1>>, url |-> UrlOff,
         visited |-> FALSE, site_name |-> "other"] }

VARIABLES
    pc,                  \* position in run(): idle, loop, articles, done
    visits,              \* listing pages dequeued so far, over all runs
    config,              \* the optional patterns of site_elements_patterns
    store,               \* the Mongo collection: documents in insert order
    connected,           \* the MongoClient of this run is open
    start_urls,          \* the deque of run()
    start_url,           \* the URL popped last
    page_content,        \* what the gate and the page limit saw on its page
    article_urls,        \* the batch of the current listing page
    idx,                 \* position of the for loop in article_urls
    date_limit_reached,
    outcome,             \* how the last run ended
    found_urls,          \* what topics_urls_pattern matched on the base page
    seeds,               \* the start URLs this run found on the base page
    docs_before,         \* the size of the collection when this run began
    visited,             \* the pages popped in this run, in order: the URL,
                         \* whether must_exist_pattern matched (FALSE too when
                         \* the fetch failed), the next page pushed
    trace                \* the I/O since the last pop (or the start of the run)

vars == <<pc, visits, config, store, connected, start_urls, start_url,
          page_content, article_urls, idx, date_limit_reached, outcome,
          found_urls, seeds, docs_before, visited, trace>>

\* One I/O operation: op is fetch (arg: the request parameters used), find,
\* insert, open, close, pop or push; res is how it ended; date is the
\* parsed_date of a fetched article (<<>> when it has none).
Event(op, u, arg, res) ==
    [op |-> op, url |-> u, arg |-> arg, res |-> res, date |-> <<>>]

Fetched(u, parsed_content) ==
    [op |-> "fetch", url |-> u, arg |-> "scrape", res |-> "ok",
     date |-> IF "parsed_date" \in DOMAIN parsed_content
              THEN parsed_content.parsed_date ELSE <<>>]

Close == Event("close", BaseUrl, "", "ok")

Visit(u, gate) == [url |-> u, must_exist |-> gate, next |-> <<>>]

NoPage == [must_exist |-> FALSE, active |-> NoActivePage]

\* ------------------------------------------------------------ the pipeline
\* the two filters left out: every resolved link is a start URL
find_start_urls_unfiltered(links) ==
    [i \in 1..Len(links) |-> urljoin(BaseUrl, links[i])]

\* _find_start_urls
find_start_urls(links) ==
    LET found == [i \in 1..Len(links) |-> urljoin(BaseUrl, links[i])]
        on_site == SelectSeq(found, LAMBDA u : StartsWith(Str(u), Str(BaseUrl)))
    IN SelectSeq(on_site, LAMBDA u : u \notin blacklisted_urls)

\* the gate left out: every page is crawled
should_crawl_always(page) == TRUE

\* _should_crawl_website
should_crawl_website(page) == page.must_exist

\* _find_article_urls
find_article_urls(links) ==
    [i \in 1..Len(links) |-> urljoin(BaseUrl, links[i])]

\* a page number that does not parse read as no page number
page_number_error_swallowed(page) == FALSE

\* int(text) raising in _page_limit_reached
page_number_error(page) ==
    /\ config.active_page_pattern # None
    /\ page.active.found
    /\ ~page.active.numeric

\* active_page >= max_num_pages for active_page > max_num_pages
page_limit_reached_at(page) ==
    IF config.active_page_pattern = None THEN FALSE
    ELSE IF ~page.active.found THEN FALSE
    ELSE page.active.number >= max_num_pages

\* _page_limit_reached, when int(text) does not raise
page_limit_reached(page) ==
    IF config.active_page_pattern = None THEN FALSE
    ELSE IF ~page.active.found THEN FALSE
    ELSE page.active.number > max_num_pages

\* start_urls[0] for start_urls.popleft(): the head read and left in place
peek(deque) == deque

\* what start_urls.popleft() leaves in the deque
popleft(deque) == Tail(deque)

\* append for appendleft
append_right(deque, next_page_url) == deque \o next_page_url

\* start_urls.appendleft(next_page_url), when it is not None
appendleft(deque, next_page_url) == next_page_url \o deque

\* the test of line 71 left out: a missing element gives the href None, and
\* urljoin(base_url, None) is base_url
get_next_page_unchecked(next) ==
    IF config.next_page_pattern = None THEN <<>>
    ELSE <<urljoin(BaseUrl, next)>>

\* _get_next_page: <<>> for None, or the URL to visit next
get_next_page(next) ==
    IF config.next_page_pattern = None THEN <<>>
    ELSE IF next = NoElement THEN <<>>
    ELSE <<urljoin(BaseUrl, next)>>

\* the lookup narrowed to documents not older than until_date
find_one_recent(u) ==
    \E i \in DOMAIN store :
        /\ "url" \in DOMAIN store[i] /\ store[i].url = u
        /\ "parsed_date" \in DOMAIN store[i]
        /\ ~StrLess(store[i].parsed_date, until_date)

\* the lookup left out: every article URL is taken as new
find_one_never(u) == FALSE

\* collection.find_one({"url": u})
find_one(u) ==
    \E i \in DOMAIN store : "url" \in DOMAIN store[i] /\ store[i].url = u

\* {**fields, **parsed_content}
merge_parsed_last(parsed_content, fields) ==
    [k \in DOMAIN parsed_content \cup DOMAIN fields |->
        IF k \in DOMAIN parsed_content THEN parsed_content[k] ELSE fields[k]]

\* {**parsed_content, **fields}
merge(parsed_content, fields) ==
    [k \in DOMAIN parsed_content \cup DOMAIN fields |->
        IF k \in DOMAIN fields THEN fields[k] ELSE parsed_content[k]]

\* the URL of the listing page stored for the URL of the article
metadata_start_url(u) == [url |-> start_url, visited |-> TRUE, site_name |-> site_name]

\* fields, line 111
metadata(u) == [url |-> u, visited |-> TRUE, site_name |-> site_name]

\* the flag set to False once, before the while loop, and not per page
batch_flag_kept(flag) == flag

\* line 105: date_limit_reached = False, at the start of every batch
batch_flag(flag) == FALSE

\* article_date <= until_date for article_date < until_date
date_limit_at(parsed_content, flag) ==
    IF "parsed_date" \in DOMAIN parsed_content
    THEN ~StrLess(until_date, parsed_content.parsed_date)
    ELSE flag

\* the flag never set
date_limit_never(parsed_content, flag) == flag

\* until_date < article_date for article_date < until_date
date_limit_newer(parsed_content, flag) ==
    IF "parsed_date" \in DOMAIN parsed_content
    THEN StrLess(until_date, parsed_content.parsed_date)
    ELSE flag

\* lines 113-114: article_date < until_date, when the parsed content has a date
date_limit(parsed_content, flag) ==
    IF "parsed_date" \in DOMAIN parsed_content
    THEN StrLess(parsed_content.parsed_date, until_date)
    ELSE flag

\* the error caught inside the while loop: the rest of the page is given up
\* and the loop goes on
Abort_page_only(error, events) ==
    /\ pc' = "loop"
    /\ outcome' = outcome
    /\ connected' = connected
    /\ trace' = events

\* no with block: the client stays open when an error ends the run
Abort_client_open(error, events) ==
    /\ pc' = "done"
    /\ outcome' = error
    /\ connected' = connected
    /\ trace' = events

\* leaving the with block and the try: the client is closed, the error logged
Abort(error, events) ==
    /\ pc' = "done"
    /\ outcome' = error
    /\ connected' = FALSE
    /\ trace' = events \o <<Close>>

Init ==
    /\ pc = "idle"
    /\ visits = 0
    /\ config \in [active_page_pattern : {None, Pattern},
                   next_page_pattern : {None, Pattern}]
    /\ store = <<>>
    /\ connected = FALSE
    /\ start_urls = <<>>
    /\ start_url = NoUrl
    /\ page_content = NoPage
    /\ article_urls = <<>>
    /\ idx = 0
    /\ date_limit_reached = FALSE
    /\ outcome = None
    /\ found_urls = <<>>
    /\ seeds = <<>>
    /\ docs_before = 0
    /\ visited = <<>>
    /\ trace = <<>>

\* lines 77-87: the base page, the start URLs, the client (a further run is
\* begun only while listing pages may still be dequeued)
StartRun ==
    /\ pc \in {"idle", "done"}
    /\ visits < MaxVisits
    /\ start_url' = NoUrl
    /\ page_content' = NoPage
    /\ article_urls' = <<>>
    /\ idx' = 0
    /\ date_limit_reached' = FALSE
    /\ visited' = <<>>
    /\ docs_before' = Len(store)
    /\ UNCHANGED <<visits, config, store>>
    /\ \/ /\ pc' = "done"
          /\ outcome' = "http_error"
          /\ start_urls' = <<>>
          /\ found_urls' = <<>>
          /\ seeds' = <<>>
          /\ trace' = <<Event("fetch", BaseUrl, "crawl", "error")>>
          /\ connected' = FALSE
       \/ \E links \in TopicLinks :
            /\ found_urls' = links
            /\ start_urls' = find_start_urls(links)
            /\ seeds' = find_start_urls(links)
            /\ \/ /\ pc' = "loop"
                  /\ outcome' = None
                  /\ connected' = TRUE
                  /\ trace' = <<Event("fetch", BaseUrl, "crawl", "ok"),
                                Event("open", BaseUrl, "", "ok")>>
               \/ /\ pc' = "done"
                  /\ outcome' = "mongo_error"
                  /\ connected' = FALSE
                  /\ trace' = <<Event("fetch", BaseUrl, "crawl", "ok"),
                                Event("open", BaseUrl, "", "error")>>

\* lines 89, 129: the deque is empty
FinishRun ==
    /\ pc = "loop"
    /\ start_urls = <<>>
    /\ pc' = "done"
    /\ outcome' = "success"
    /\ connected' = FALSE
    /\ trace' = Append(trace, Close)
    /\ UNCHANGED <<visits, config, store, start_urls, start_url, page_content,
                   article_urls, idx, date_limit_reached, found_urls, seeds,
                   docs_before, visited>>

\* lines 89-105: pop, fetch, structural gate, page limit, article discovery
Dequeue ==
    /\ pc = "loop"
    /\ start_urls # <<>>
    /\ visits < MaxVisits
    /\ visits' = visits + 1
    /\ start_url' = Head(start_urls)
    /\ start_urls' = popleft(start_urls)
    /\ UNCHANGED <<config, store, found_urls, seeds, docs_before>>
    /\ LET u == Head(start_urls)
           pop == Event("pop", u, "", "ok")
           fetch(r) == Event("fetch", u, "crawl", r)
       IN
       \/ /\ Abort("http_error", <<pop, fetch("error")>>)
          /\ visited' = Append(visited, Visit(u, FALSE))
          /\ UNCHANGED <<page_content, article_urls, idx, date_limit_reached>>
       \/ \E gate \in BOOLEAN :
          \E active \in (IF gate /\ config.active_page_pattern # None
                         THEN ActivePages ELSE {NoActivePage}) :
            LET page == [must_exist |-> gate, active |-> active] IN
            /\ page_content' = page
            /\ visited' = Append(visited, Visit(u, gate))
            /\ IF ~should_crawl_website(page)
               THEN /\ pc' = "loop"
                    /\ trace' = <<pop, fetch("ok")>>
                    /\ UNCHANGED <<connected, outcome, article_urls, idx,
                                   date_limit_reached>>
               ELSE IF page_number_error(page)
               THEN /\ Abort("error", <<pop, fetch("ok")>>)
                    /\ UNCHANGED <<article_urls, idx, date_limit_reached>>
               ELSE IF page_limit_reached(page)
               THEN /\ pc' = "loop"
                    /\ trace' = <<pop, fetch("ok")>>
                    /\ UNCHANGED <<connected, outcome, article_urls, idx,
                                   date_limit_reached>>
               ELSE \E links \in ArticleLinks :
                      /\ pc' = "articles"
                      /\ article_urls' = find_article_urls(links)
                      /\ idx' = 1
                      /\ date_limit_reached' = batch_flag(date_limit_reached)
                      /\ trace' = <<pop, fetch("ok")>>
                      /\ UNCHANGED <<connected, outcome>>

\* the batch taken from its end: for article_url in reversed(article_urls)
article_url_reversed == article_urls[Len(article_urls) + 1 - idx]

\* line 106: for article_url in article_urls
article_url == article_urls[idx]

\* lines 106-118: one iteration of the for loop
ProcessArticle ==
    /\ pc = "articles"
    /\ idx <= Len(article_urls)
    /\ ~date_limit_reached
    /\ UNCHANGED <<visits, config, start_urls, start_url, page_content,
                   article_urls, found_urls, seeds, docs_before, visited>>
    /\ LET u == article_url
           find(r) == Event("find", u, "", r)
       IN
       \/ /\ Abort("mongo_error", Append(trace, find("error")))
          /\ UNCHANGED <<store, idx, date_limit_reached>>
       \/ /\ find_one(u)
          /\ idx' = idx + 1
          /\ trace' = Append(trace, find("hit"))
          /\ UNCHANGED <<pc, store, connected, outcome, date_limit_reached>>
       \/ /\ ~find_one(u)
          /\ \/ /\ Abort("http_error", trace \o
                         <<find("miss"), Event("fetch", u, "scrape", "error")>>)
                /\ UNCHANGED <<store, idx, date_limit_reached>>
             \/ \E parsed_content \in Parsed :
                  /\ date_limit_reached' =
                        date_limit(parsed_content, date_limit_reached)
                  /\ \/ /\ Abort("mongo_error", trace \o
                                 <<find("miss"), Fetched(u, parsed_content),
                                   Event("insert", u, "", "error")>>)
                        /\ UNCHANGED <<store, idx>>
                     \/ /\ store' = Append(store, merge(parsed_content, metadata(u)))
                        /\ idx' = idx + 1
                        /\ trace' = trace \o
                              <<find("miss"), Fetched(u, parsed_content),
                                Event("insert", u, "", "ok")>>
                        /\ UNCHANGED <<pc, connected, outcome>>

\* lines 117-127: the batch is over (break or exhaustion); the next page,
\* next_links being what next_page_pattern can match on the page
EndBatchOn(next_links) ==
    /\ pc = "articles"
    /\ idx > Len(article_urls) \/ date_limit_reached
    /\ pc' = "loop"
    /\ UNCHANGED <<visits, config, store, connected, start_url, page_content,
                   article_urls, idx, date_limit_reached, outcome, found_urls,
                   seeds, docs_before>>
    /\ IF date_limit_reached
       THEN UNCHANGED <<start_urls, visited, trace>>
       ELSE \E next \in (IF config.next_page_pattern = None
                         THEN {NoElement} ELSE next_links) :
              LET next_page_url == get_next_page(next) IN
              /\ start_urls' = appendleft(start_urls, next_page_url)
              /\ visited' = [visited EXCEPT ![Len(visited)].next = next_page_url]
              /\ trace' = trace \o [i \in 1..Len(next_page_url) |->
                                       Event("push", next_page_url[i], "", "ok")]

EndBatch == EndBatchOn(NextLinks)

Next ==
    \/ StartRun
    \/ FinishRun
    \/ Dequeue
    \/ ProcessArticle
    \/ EndBatch

Spec == Init /\ [][Next]_vars

\* ------------------------------ one run on a collection filled before
\* what earlier runs may have left in the collection: nothing, or an article
\* older than until_date
EarlierStores ==
    { <<>>,
      <<[title |-> "t", parsed_date |-> <<1, 9>>, url |-> Art2,
         visited |-> TRUE, site_name |-> site_name]>> }

RunInit ==
    /\ pc = "idle"
    /\ visits = 0
    /\ config \in [active_page_pattern : {None, Pattern},
                   next_page_pattern : {None, Pattern}]
    /\ store \in EarlierStores
    /\ connected = FALSE
    /\ start_urls = <<>>
    /\ start_url = NoUrl
    /\ page_content = NoPage
    /\ article_urls = <<>>
    /\ idx = 0
    /\ date_limit_reached = FALSE
    /\ outcome = None
    /\ found_urls = <<>>
    /\ seeds = <<>>
    /\ docs_before = Len(store)
    /\ visited = <<>>
    /\ trace = <<>>

\* run() is invoked once
RunOnce == pc = "idle" /\ StartRun

RunNext ==
    \/ RunOnce
    \/ FinishRun
    \/ Dequeue
    \/ ProcessArticle
    \/ EndBatch

RunSpec == RunInit /\ [][RunNext]_vars

\* ------------------------- one run on a site without failures or cycles
\* the next-page element of the listing page at u, on a site whose next-page
\* links form the chain b -> a2 and no other
SiteNextLinks(u) == IF u = UrlB THEN {Root(<<"a2">>)} ELSE {NoElement}

\* no fetch and no store operation of the step fails
Succeeds == \A i \in DOMAIN trace' : trace'[i].res # "error"

LiveStartRun == pc = "idle" /\ StartRun /\ Succeeds
LiveDequeue == Dequeue /\ Succeeds
LiveProcessArticle == ProcessArticle /\ Succeeds
LiveEndBatch == EndBatchOn(SiteNextLinks(start_url))
LiveFinishRun == FinishRun

LiveNext ==
    \/ LiveStartRun
    \/ LiveFinishRun
    \/ LiveDequeue
    \/ LiveProcessArticle
    \/ LiveEndBatch

\* run() is one thread of blocking calls that return: it takes its next
\* step whenever it has one
LiveSpec == Init /\ [][LiveNext]_vars /\ WF_vars(LiveNext)

\* ------------------------------------------- _find_start_urls on its own
\* topic links matched on a base page, at most this many
MaxLinks == 3

\* a URL of another host whose text begins with the text of the base URL
\* (base_url "https://site", URL "https://site.evil/x")
UrlLike == Url(<<"site", "evil">>, <<"x">>)

\* the hrefs topics_urls_pattern can return
TopicHrefs ==
    {Root(<<"a">>), Rel(<<"b">>), Root(<<"bl">>), Abs(UrlOff), Abs(UrlLike)}

\* the base page was fetched and topics_urls_pattern evaluated on it
SeedInit ==
    /\ pc = "idle"
    /\ visits = 0
    /\ config \in [active_page_pattern : {None, Pattern},
                   next_page_pattern : {None, Pattern}]
    /\ store = <<>>
    /\ connected = FALSE
    /\ start_urls = <<>>
    /\ start_url = NoUrl
    /\ page_content = NoPage
    /\ article_urls = <<>>
    /\ idx = 0
    /\ date_limit_reached = FALSE
    /\ outcome = None
    /\ found_urls \in UNION {[1..n -> TopicHrefs] : n \in 0..MaxLinks}
    /\ seeds = <<>>
    /\ docs_before = 0
    /\ visited = <<>>
    /\ trace = <<>>

\* line 82: start_urls = deque(self._find_start_urls(first_page_content))
FindStartUrls ==
    /\ pc = "idle"
    /\ pc' = "seeded"
    /\ start_urls' = find_start_urls(found_urls)
    /\ seeds' = find_start_urls(found_urls)
    /\ trace' = <<Event("fetch", BaseUrl, "crawl", "ok")>>
    /\ UNCHANGED <<visits, config, store, connected, start_url, page_content,
                   article_urls, idx, date_limit_reached, outcome, found_urls,
                   docs_before, visited>>

SeedNext == FindStartUrls

SeedSpec == SeedInit /\ [][SeedNext]_vars

\* ------------------------------------------------------------ the claims
Range(f) == {f[i] : i \in DOMAIN f}
Last(t) == t[Len(t)]

\* the collection holds a document with this URL
Holds(u) == \E k \in DOMAIN store : store[k].url = u

\* the article pages fetched in t
ScrapeFetches(t) == {i \in DOMAIN t : t[i].op = "fetch" /\ t[i].arg = "scrape"}

\* the documents inserted since the last pop, by URL, in order
Inserts(t) == SelectSeq(t, LAMBDA e : e.op = "insert" /\ e.res = "ok")
BatchInserts == [i \in 1..Len(Inserts(trace)) |-> Inserts(trace)[i].url]

\* a date of the form the site uses (two digits here), as a number
DateValue(d) == d[1] * 10 + d[2]
Older(d) == d # <<>> /\ DateValue(d) < DateValue(until_date)
Newer(d) == d # <<>> /\ DateValue(d) > DateValue(until_date)

\* the trace is that of a listing page that was popped and fetched, so that
\* page_content is what the gate and the page limit saw on it
OnPage == Len(trace) >= 2 /\ trace[1].op = "pop" /\ trace[2].res = "ok"

\* the for loop over the batch is over and nothing failed in it
BatchOver == pc = "articles" /\ (idx > Len(article_urls) \/ date_limit_reached)

\* the run goes on with the next frontier entry, or ends well for want of one
GoesOn == pc = "loop" \/ (pc = "done" /\ outcome = "success")

\* nothing was done for the popped page after its fetch
OnlyFetched == \A i \in DOMAIN trace : i > 2 => trace[i].op = "close"

\* C1: an article URL reached in a batch while the collection holds a
\* document with that URL is neither fetched nor inserted: the step taken
\* for it leaves the collection as it is and fetches no article page.  This
\* holds in every run on the same collection.
C1_Dedup ==
    [][ (pc = "articles" /\ idx <= Len(article_urls)
            /\ Holds(article_urls[idx]))
        => /\ store' = store
           /\ Cardinality(ScrapeFetches(trace')) = Cardinality(ScrapeFetches(trace))
      ]_vars

\* a URL ingested by an earlier run is reached again and found
C1_Witness ==
    \E i \in DOMAIN trace :
        /\ trace[i].op = "find"
        /\ trace[i].res = "hit"
        /\ \E k \in 1..docs_before : store[k].url = trace[i].url

\* C2: within a batch, once an article was parsed with a date earlier than
\* until_date, no further article page is fetched and no next page is pushed
\* for that listing page.
C2_DateCutoff ==
    \A i \in DOMAIN trace :
        (trace[i].op = "fetch" /\ trace[i].arg = "scrape" /\ Older(trace[i].date))
        => \A j \in DOMAIN trace : j > i => trace[j].op \notin {"fetch", "push"}

\* a batch was cut short by an old article: articles were left, and a next
\* page pattern is configured
C2_Witness ==
    /\ pc = "loop"
    /\ config.next_page_pattern # None
    /\ idx <= Len(article_urls)
    /\ \E i \in DOMAIN trace :
          trace[i].op = "fetch" /\ trace[i].arg = "scrape" /\ Older(trace[i].date)

\* the case of C3: a batch of three articles, none in the collection when the
\* batch began, of which the second was found older than until_date
ThreeArticlesSecondOld ==
    /\ BatchOver
    /\ Len(article_urls) = 3
    /\ Cardinality(Range(article_urls)) = 3
    /\ \A k \in 1..(Len(store) - Len(BatchInserts)) :
          store[k].url \notin Range(article_urls)
    /\ \E i \in DOMAIN trace :
          /\ trace[i].op = "fetch"
          /\ trace[i].url = article_urls[2]
          /\ Older(trace[i].date)

ThirdNeverFetched ==
    \A i \in DOMAIN trace :
        trace[i].op = "fetch" => trace[i].url # article_urls[3]

\* C3 as stated: in that case exactly the first article is inserted and the
\* third is never fetched.
C3_OnlyFirstInserted ==
    ThreeArticlesSecondOld
    => (BatchInserts = <<article_urls[1]>> /\ ThirdNeverFetched)

\* C3, amended: in that case exactly the first and the second article are
\* inserted (the old one is inserted before the loop breaks) and the third
\* is never fetched.
C3_FirstTwoInserted ==
    ThreeArticlesSecondOld
    => (BatchInserts = <<article_urls[1], article_urls[2]>> /\ ThirdNeverFetched)

C3_Witness == ThreeArticlesSecondOld

\* the URLs popped in this run, in order
VisitedUrls == [i \in DOMAIN visited |-> visited[i].url]
\* what the visits of u pushed
NextOf(u) == {visited[i].next : i \in {j \in DOMAIN visited : visited[j].url = u}}

\* C4: the next page a listing page pushes is the very next page popped,
\* ahead of every seed still waiting; with seeds [A, B], A having the two
\* pages A and A2 and B one, the pages are processed in the order A, A2, B.
C4_FrontOfFrontier ==
    /\ \A i \in DOMAIN visited :
          visited[i].next # <<>>
          => IF i < Len(visited)
             THEN visited[i + 1].url = visited[i].next[1]
             ELSE pc = "loop" => (start_urls # <<>>
                                  /\ Head(start_urls) = visited[i].next[1])
    /\ ( /\ pc = "done"
         /\ outcome = "success"
         /\ seeds = <<UrlA, UrlB>>
         /\ NextOf(UrlA) = {<<UrlA2>>}
         /\ NextOf(UrlA2) = {<<>>}
         /\ NextOf(UrlB) = {<<>>} )
       => VisitedUrls = <<UrlA, UrlA2, UrlB>>

C4_Witness ==
    /\ pc = "done"
    /\ outcome = "success"
    /\ seeds = <<UrlA, UrlB>>
    /\ VisitedUrls = <<UrlA, UrlA2, UrlB>>
    /\ visited[1].next = <<UrlA2>>

\* C5: for a popped page on which must_exist_pattern matches nothing, nothing
\* is looked up, fetched, inserted or pushed; it is no error, and the run goes
\* on with the next frontier entry.
C5_StructuralGate ==
    (OnPage /\ ~page_content.must_exist)
    => (GoesOn /\ OnlyFetched /\ outcome # "error")

\* a page was skipped at the gate with entries left in the frontier
C5_Witness ==
    /\ OnPage
    /\ ~page_content.must_exist
    /\ pc = "loop"
    /\ start_urls # <<>>

\* the active page number of the page just fetched is over the limit
OverLimit(page) ==
    /\ config.active_page_pattern # None
    /\ page.active.found
    /\ page.active.numeric
    /\ page.active.number > max_num_pages

\* the cases C6 names as not limited
NotLimited(page) ==
    \/ config.active_page_pattern = None
    \/ ~page.active.found
    \/ (page.active.numeric /\ page.active.number = max_num_pages)

\* C6: a popped page that passes the gate and whose active page number is
\* greater than max_num_pages is skipped: nothing is fetched, inserted or
\* pushed for it.  A page whose number equals max_num_pages, or for which
\* active_page_pattern is unset or matches nothing, goes on to its articles.
C6_PageLimit ==
    [][ (visits' # visits /\ trace'[2].res = "ok" /\ page_content'.must_exist)
        => /\ OverLimit(page_content')
              => /\ pc' = "loop"
                 /\ store' = store
                 /\ start_urls' = Tail(start_urls)
                 /\ Len(trace') = 2
                 /\ outcome' = outcome
           /\ NotLimited(page_content') => pc' = "articles"
      ]_vars

\* a page over the limit was skipped with entries left in the frontier
C6_Witness ==
    /\ OnPage
    /\ page_content.must_exist
    /\ OverLimit(page_content)
    /\ pc = "loop"
    /\ start_urls # <<>>

Failed(t) == \E i \in DOMAIN t : t[i].res = "error"

\* C7: when a fetch or a store operation fails, the run is over: the failure
\* is the last operation but for the closing of the client, and the
\* documents inserted before it are still in the collection.
C7_AbortOnFailure ==
    /\ Failed(trace)
       => /\ pc = "done"
          /\ outcome \in {"http_error", "mongo_error"}
          /\ \A i \in DOMAIN trace :
                trace[i].res = "error"
                => \A j \in DOMAIN trace : j > i => trace[j].op = "close"
    /\ Len(store) >= docs_before
    /\ \A i \in DOMAIN trace :
          (trace[i].op = "insert" /\ trace[i].res = "ok") => Holds(trace[i].url)

\* a failure after an insert of this run, with entries left in the frontier
C7_Witness ==
    /\ Failed(trace)
    /\ Len(store) > docs_before
    /\ BatchInserts # <<>>
    /\ start_urls # <<>>

\* the active page element of the page just fetched has a text int() rejects
BadPageNumber ==
    /\ OnPage
    /\ page_content.must_exist
    /\ config.active_page_pattern # None
    /\ page_content.active.found
    /\ ~page_content.active.numeric

\* C8: when the active page element matches but its text is no integer, the
\* run ends in an error: no article of the page is looked up, fetched or
\* inserted, and no further frontier entry is processed.
C8_PageNumberFatal ==
    BadPageNumber
    => /\ pc = "done"
       /\ outcome = "error"
       /\ OnlyFetched
       /\ Last(trace).op = "close"

\* such a page ended a run that had entries left in the frontier
C8_Witness == BadPageNumber /\ start_urls # <<>>

\* C9: the client is open from before the first pop to the end of the run,
\* however the run ends, and closed once run() has returned; no store
\* operation comes after the closing.
C9_ConnectionScope ==
    /\ pc \in {"loop", "articles"} => connected
    /\ pc \in {"idle", "done"} => ~connected
    /\ \A i \in DOMAIN trace :
          trace[i].op \in {"find", "insert"}
          => \A j \in DOMAIN trace : j < i => trace[j].op \notin {"close"}
    /\ (pc = "done" /\ \E i \in DOMAIN trace : trace[i].op \in {"open", "pop"}
                    /\ trace[i].res = "ok")
       => Last(trace).op = "close"

\* a run that failed in the middle of a batch has returned
C9_Witness ==
    /\ pc = "done"
    /\ outcome \in {"http_error", "mongo_error"}
    /\ \E i \in DOMAIN trace : trace[i].op = "find"

\* the document the i-th insert of the batch put into the collection
InsertedDoc(i) == store[Len(store) - Len(BatchInserts) + i]
\* where in the trace the i-th insert of the batch is
InsertAt(i) ==
    CHOOSE n \in DOMAIN trace :
        /\ trace[n].op = "insert" /\ trace[n].res = "ok"
        /\ Len(Inserts(SubSeq(trace, 1, n))) = i

\* the case of C10: seed X fails the gate, seed Y lists two articles, one in
\* the collection and one new and newer than until_date, and the run ends
OneStoredOneNew ==
    /\ pc = "done"
    /\ outcome = "success"
    /\ Len(seeds) = 2
    /\ Len(visited) = 2
    /\ ~visited[1].must_exist
    /\ visited[2].must_exist
    /\ Len(article_urls) = 2
    /\ Cardinality(Range(article_urls)) = 2
    /\ Cardinality({i \in DOMAIN trace : trace[i].op = "find" /\ trace[i].res = "hit"}) = 1
    /\ \E i \in DOMAIN trace :
          trace[i].op = "fetch" /\ trace[i].arg = "scrape" /\ Newer(trace[i].date)

\* C10: every document inserted has the URL of the article page it was
\* extracted from, visited = TRUE and the site name of the pipeline, whatever
\* the extraction returned under these names, and the extracted fields
\* beside them; in the case above the run inserts exactly one document.
C10_DocumentShape ==
    /\ \A k \in DOMAIN store :
          /\ {"url", "visited", "site_name", "title"} \subseteq DOMAIN store[k]
          /\ store[k].visited = TRUE
          /\ store[k].site_name = site_name
    /\ \A i \in 1..Len(BatchInserts) :
          LET doc == InsertedDoc(i)
              fetched == trace[InsertAt(i) - 1]
          IN /\ doc.url = BatchInserts[i]
             /\ fetched.op = "fetch" /\ fetched.url = doc.url
             /\ IF fetched.date = <<>>
                THEN "parsed_date" \notin DOMAIN doc
                ELSE "parsed_date" \in DOMAIN doc /\ doc.parsed_date = fetched.date
    /\ OneStoredOneNew => Len(store) = docs_before + 1

\* the case above, the new article's page returning fields named like the
\* metadata
C10_Witness ==
    /\ OneStoredOneNew
    /\ \E i \in DOMAIN trace :
          trace[i].op = "fetch" /\ trace[i].date = <<2, 1>>

\* a listing page is being processed: it was popped and its batch is under way
Processing == pc = "articles"

\* C11: a URL leaves the frontier exactly when it is popped (the pop takes
\* the head and nothing else takes anything out), and while a listing page is
\* being processed the frontier holds no copy of its URL, also when the base
\* page lists a topic link twice or a next page resolves to a URL seen before.
C11_FrontierInvariant ==
    [][ /\ visits' # visits
           => (start_url' = Head(start_urls) /\ start_urls' = Tail(start_urls))
        /\ (visits' = visits /\ pc = "articles" /\ pc' = "loop")
           => (start_urls' = start_urls \/ Tail(start_urls') = start_urls)
        /\ Processing' => start_url' \notin Range(start_urls')
      ]_vars

\* the text of u begins with the text of the base URL
HasBasePrefix(u) ==
    LET text == Str(u)
        base == Str(BaseUrl)
    IN /\ Len(base) <= Len(text)
       /\ \A i \in 1..Len(base) : text[i] = base[i]

\* u is a URL of the site: its host is the host of the base URL
OnSite(u) == u.host = BaseUrl.host

\* the links kept of those matched, in the order matched
Kept(links) ==
    SelectSeq([i \in DOMAIN links |-> urljoin(BaseUrl, links[i])],
              LAMBDA u : HasBasePrefix(u) /\ u \notin blacklisted_urls)

\* C12: the frontier a run starts with is the topic links matched on the base
\* page, each resolved against the base URL, those kept whose resolved form
\* starts with the base URL and is not blacklisted, in the order matched; no
\* seed is a URL of another site, and none is blacklisted.
C12_SeedDiscovery ==
    pc # "idle"
    => /\ seeds = Kept(found_urls)
       /\ pc = "seeded" => start_urls = seeds
       /\ \A i \in DOMAIN seeds :
             OnSite(seeds[i]) /\ seeds[i] \notin blacklisted_urls

\* what _find_start_urls does keep: the seeds are the resolved links that
\* pass the prefix test and the blacklist, in order
SeedsPassPrefixFilter ==
    pc # "idle"
    => /\ seeds = Kept(found_urls)
       /\ pc = "seeded" => start_urls = seeds
       /\ \A i \in DOMAIN seeds : seeds[i] \notin blacklisted_urls

\* the base page was fetched, and of the topic links matched on it (if any)
\* none passes the filters
NoSeeds ==
    /\ pc # "idle"
    /\ trace # <<Event("fetch", BaseUrl, "crawl", "error")>>
    /\ Kept(found_urls) = <<>>

\* nothing but the fetch of the base page and the opening and closing of the
\* client
NoWork(t) ==
    \A i \in DOMAIN t :
        \/ t[i].op \in {"open", "close"}
        \/ (t[i].op = "fetch" /\ t[i].url = BaseUrl /\ t[i].arg = "crawl")

\* C13: when the topic pattern matches nothing on the base page, or every
\* match is filtered out, the run pops nothing, fetches no listing page and
\* no article page, looks nothing up and inserts nothing, and it ends as a
\* success (the client having been created): the empty seed set is no error.
C13_EmptySeeds ==
    NoSeeds
    => /\ seeds = <<>>
       /\ start_urls = <<>>
       /\ visited = <<>>
       /\ pc # "articles"
       /\ NoWork(trace)
       /\ Len(store) = docs_before
       /\ (pc = "done" /\ ~Failed(trace)) => outcome = "success"

\* a run whose topic links were all filtered out has ended
C13_Witness ==
    /\ NoSeeds
    /\ found_urls # <<>>
    /\ pc = "done"
    /\ outcome = "success"
    /\ Last(trace).op = "close"

\* the article URLs looked up since the last pop, in order
Lookups == LET finds == SelectSeq(trace, LAMBDA e : e.op = "find")
           IN [i \in DOMAIN finds |-> finds[i].url]

\* the listing page popped last went on to its articles and the loop is back
\* at its head, where the next frontier entry is popped
BackAtHead ==
    /\ pc = "loop"
    /\ OnPage
    /\ page_content.must_exist
    /\ ~OverLimit(page_content)

\* C14: the lookups, article fetches and inserts since a pop are those of the
\* page popped, in the order of its batch: the i-th lookup is for the i-th
\* article URL, a fetch follows the lookup that missed and an insert the
\* fetch of the same URL.  The loop is back at its head, where the next entry
\* is popped, only when the batch is done: every article looked up, or the
\* date limit hit.
C14_Sequential ==
    /\ \A i \in DOMAIN trace :
          /\ trace[i].op = "pop" => (i = 1 /\ trace[i].url = start_url)
          /\ trace[i].op \in {"find", "insert", "push"} => trace[1].op = "pop"
          /\ (trace[i].op = "fetch" /\ trace[i].arg = "scrape")
             => /\ trace[i - 1].op = "find"
                /\ trace[i - 1].res = "miss"
                /\ trace[i - 1].url = trace[i].url
          /\ trace[i].op = "insert"
             => /\ trace[i - 1].op = "fetch"
                /\ trace[i - 1].res = "ok"
                /\ trace[i - 1].url = trace[i].url
    /\ (trace # <<>> /\ trace[1].op = "pop")
       => /\ Len(Lookups) <= Len(article_urls)
          /\ Lookups = SubSeq(article_urls, 1, Len(Lookups))
    /\ BackAtHead
       => \/ Len(Lookups) = Len(article_urls)
          \/ \E i \in DOMAIN trace :
                trace[i].op = "fetch" /\ Older(trace[i].date)

\* a batch of three articles was handled to its end, two of them fetched and
\* inserted, and a further frontier entry waits
C14_Witness ==
    /\ BackAtHead
    /\ start_urls # <<>>
    /\ Len(Lookups) = 3
    /\ Cardinality(Range(article_urls)) = 3
    /\ Len(BatchInserts) >= 2

\* an article older than until_date was fetched and inserted since the last
\* pop: the date limit was hit on the page popped last
DateHit ==
    \E i \in DOMAIN trace :
        /\ trace[i].op = "fetch" /\ trace[i].arg = "scrape" /\ Older(trace[i].date)
        /\ i < Len(trace) /\ trace[i + 1].op = "insert" /\ trace[i + 1].res = "ok"

\* the seeds popped so far in this run: the pages popped that were not the
\* next page of the page popped before them
SeedsPopped ==
    Len(visited) - Cardinality({i \in DOMAIN visited :
                                  i < Len(visited) /\ visited[i].next # <<>>})

SeedsLeft == SubSeq(seeds, SeedsPopped + 1, Len(seeds))

\* C15: the date limit is that of one batch.  The flag is up in a batch only
\* when an article of that batch was found older than until_date.  After a
\* hit the run is not over and no error: the loop goes on, and the frontier
\* holds every seed not yet popped, nothing having been pushed or dropped.
\* A run that ends as a success has popped every seed.
C15_DateLimitPerBatch ==
    /\ (pc = "articles" /\ date_limit_reached)
       => \E i \in DOMAIN trace :
             trace[i].op = "fetch" /\ trace[i].arg = "scrape" /\ Older(trace[i].date)
    /\ DateHit
       => /\ pc = "done" => outcome = "success"
          /\ pc \in {"loop", "articles"} => start_urls = SeedsLeft
          /\ Last(visited).next = <<>>
    /\ (pc = "done" /\ outcome = "success") => SeedsPopped = Len(seeds)

\* the date limit was hit on an earlier page of this run, whose old article
\* is in the collection, and an article of a later page has been inserted
C15_Witness ==
    /\ Len(visited) >= 2
    /\ ~DateHit
    /\ BatchInserts # <<>>
    /\ \E k \in (docs_before + 1)..(Len(store) - Len(BatchInserts)) :
          "parsed_date" \in DOMAIN store[k] /\ Older(store[k].parsed_date)

\* the article pages fetched since the last pop whose date is this one
FetchedWith(d) ==
    {i \in DOMAIN trace :
        trace[i].op = "fetch" /\ trace[i].arg = "scrape"
        /\ trace[i].res = "ok" /\ trace[i].date = d}

OldFetched ==
    \E i \in DOMAIN trace :
        trace[i].op = "fetch" /\ trace[i].arg = "scrape" /\ Older(trace[i].date)

\* C16: in a batch the flag is up exactly when an article fetched in it has
\* a date strictly earlier than until_date: an article dated until_date, or
\* without a date, does not raise it, and a batch without an older article
\* is handled to its last article before the loop goes on (to the next page,
\* where there is one).
C16_DateBoundary ==
    /\ pc = "articles" => (date_limit_reached <=> OldFetched)
    /\ (pc = "articles" /\ ~OldFetched /\ Len(Lookups) < Len(article_urls))
       => idx = Len(Lookups) + 1
    /\ (BackAtHead /\ ~OldFetched) => Len(Lookups) = Len(article_urls)

\* a batch with an article dated until_date and one without a date was
\* handled to its end, and its next page pushed
C16_Witness ==
    /\ BackAtHead
    /\ FetchedWith(until_date) # {}
    /\ FetchedWith(<<>>) # {}
    /\ Last(trace).op = "push"
    /\ start_urls # <<>>
    /\ Head(start_urls) = Last(trace).url

\* the collection held a document with this URL when the page popped last
\* was popped
StoredBefore(u) ==
    \E k \in 1..(Len(store) - Len(BatchInserts)) : store[k].url = u

\* and that document is older than until_date
StoredOld(u) ==
    \E k \in 1..(Len(store) - Len(BatchInserts)) :
        /\ store[k].url = u
        /\ "parsed_date" \in DOMAIN store[k]
        /\ Older(store[k].parsed_date)

\* the page popped last went on to its articles, all of them in the
\* collection already
AllStored ==
    /\ OnPage
    /\ page_content.must_exist
    /\ ~OverLimit(page_content)
    /\ ~BadPageNumber
    /\ article_urls # <<>>
    /\ \A i \in DOMAIN article_urls : StoredBefore(article_urls[i])

\* C17: on a listing page whose articles are all in the collection, however
\* old, no article is fetched or inserted and the flag stays down; once the
\* batch is through, every article was looked up and what the page has as
\* its next page is at the front of the frontier.
C17_StoredNeverCutOff ==
    AllStored
    => /\ ~date_limit_reached
       /\ ScrapeFetches(trace) = {}
       /\ BatchInserts = <<>>
       /\ pc = "loop"
          => /\ Lookups = article_urls
             /\ Last(visited).next
                   = [i \in 1..Cardinality({j \in DOMAIN trace : trace[j].op = "push"})
                        |-> Last(trace).url]
             /\ Last(visited).next # <<>>
                => Head(start_urls) = Last(visited).next[1]

\* a page whose articles are all stored with dates older than until_date
\* was gone through, and its next page pushed
C17_Witness ==
    /\ AllStored
    /\ \A i \in DOMAIN article_urls : StoredOld(article_urls[i])
    /\ pc = "loop"
    /\ Last(visited).next # <<>>
    /\ Head(start_urls) = Last(visited).next[1]

NewDocs == (docs_before + 1)..Len(store)

\* the collection held a document with this URL when the run began
StoredAtStart(u) == \E k \in 1..docs_before : store[k].url = u

\* the article URLs the listing pages of the site can show
ArticleUrls == {Art1, Art2, Art3}

\* C19: the documents a run inserts have pairwise different URLs, none of
\* which was in the collection when the run began, and each is the URL of an
\* article: the run inserts at most one document for each article URL that
\* the collection lacked.
C19_NoDoubleInsert ==
    /\ \A i, j \in NewDocs : store[i].url = store[j].url => i = j
    /\ \A i \in NewDocs : store[i].url \in ArticleUrls /\ ~StoredAtStart(store[i].url)
    /\ Cardinality(NewDocs)
          <= Cardinality({u \in ArticleUrls : ~StoredAtStart(u)})

\* a page shows the same new article twice: it was inserted at its first
\* place and found at its second
C19_Witness ==
    /\ OnPage
    /\ Len(article_urls) = 2
    /\ article_urls[1] = article_urls[2]
    /\ BatchInserts = <<article_urls[1]>>
    /\ Last(trace).op = "find"
    /\ Last(trace).res = "hit"
    /\ Cardinality({k \in DOMAIN store : store[k].url = article_urls[1]}) = 1

\* the next pages pushed since the last pop
Pushes == {i \in DOMAIN trace : trace[i].op = "push"}

\* the next page the page popped last has pushed, while it waits at the front
Waiting == IF pc = "loop" /\ visited # <<>> THEN Last(visited).next ELSE <<>>

\* C20: the frontier is never longer than the list of seeds.  An iteration
\* pops one URL and pushes at most one: between two pops at most one URL is
\* pushed, and the frontier is the seeds not yet popped, behind the next page
\* just pushed if there is one; so at the end of an iteration it is no longer
\* than it was at its start.
C20_FrontierBound ==
    /\ Len(start_urls) <= Len(seeds)
    /\ Cardinality(Pushes) <= 1
    /\ Len(Waiting) = Cardinality(Pushes)
    /\ pc \in {"loop", "articles"} => start_urls = Waiting \o SeedsLeft
    /\ pc = "articles" => Len(start_urls) < Len(seeds)

\* a next page was pushed while a seed waits: the frontier is as long as the
\* list of seeds
C20_Witness ==
    /\ pc = "loop"
    /\ Cardinality(Pushes) = 1
    /\ Len(seeds) = 2
    /\ Len(start_urls) = Len(seeds)

====
